---- MODULE Spec2Model ----
(***************************************************************************)
(* A model of the request layer of the OpenFDA MCP server:                 *)
(*   - makeOpenFDARequest (bin/OpenFDAClient.js): timeout, retry, backoff  *)
(*   - OpenFDABuilder (OpenFDABuilder.ts / .js): the URL builder           *)
(*   - normalizeNDC (bin/index.js): the NDC normaliser                     *)
(* The three components share no state, so each has its own specification  *)
(* (SpecClient, SpecBuilder, SpecNDC) over the same variables; the          *)
(* variables of the other components stay at their initial values.          *)
(***************************************************************************)
EXTENDS Integers, Sequences, FiniteSets, TLC

VARIABLES
    calls,      \* call id -> activation frame of one makeOpenFDARequest call
    traces,     \* history: call id -> the events of that call, in order, kept
                \* when calls run concurrently
    tool,       \* the activation of the get-drug-by-ndc tool handler
    params,     \* OpenFDABuilder.params (a Map: key -> value)
    apiKey,     \* process.env.OPENFDA_API_KEY, <<>> when unset, <<key>> when set
    limitCall,  \* history: the argument list of the last limit() call on the builder
    lastOp,     \* history: the builder method that ran last
    built,      \* history: the outcome of the last build() call
    setterArgs, \* history: the arguments last passed to context() and search()
    untouched,  \* history: no setter ran on the builder since its last build()
    prevBuilt,  \* history: the outcome of the build() before the last one, kept
                \* while no setter ran between the two
    ndcInput,   \* the argument of normalizeNDC, a sequence of characters
    ndcResult,  \* the value normalizeNDC returned
    ndcAgain    \* the value normalizeNDC returned for ndcResult.productNDC

vars ==
    <<calls, traces, tool, params, apiKey, limitCall, lastOp, built, setterArgs, untouched,
      prevBuilt, ndcInput, ndcResult, ndcAgain>>
clientVars == <<calls, traces, tool>>
builderVars ==
    <<params, apiKey, limitCall, lastOp, built, setterArgs, untouched, prevBuilt>>
ndcVars == <<ndcInput, ndcResult, ndcAgain>>

(***************************************************************************)
(* JavaScript values                                                       *)
(***************************************************************************)
\* JavaScript null (the `data` and `error` fields of a result, lastError)
Null == [null |-> TRUE]

(***************************************************************************)
(* makeOpenFDARequest                                                      *)
(***************************************************************************)
DEFAULT_CONFIG == [maxRetries |-> 3, retryDelay |-> 1000, timeout |-> 30000]

ConfigFields == {"maxRetries", "retryDelay", "timeout"}

\* Largest maxRetries a caller passes in the model
MaxRetriesArg == 4

\* The values a caller may give each field of the config argument
ConfigValues(k) ==
    CASE k = "maxRetries" -> 0..MaxRetriesArg
      [] k = "retryDelay" -> {1}
      [] k = "timeout" -> {50}

\* The config arguments: the caller overrides any subset of the fields
Configs ==
    UNION { { c \in [D -> 0..50] : \A k \in D : c[k] \in ConfigValues(k) }
            : D \in SUBSET ConfigFields }

\* { ...DEFAULT_CONFIG, ...config }
MergeConfig(config) ==
    [k \in ConfigFields |->
        IF k \in DOMAIN config THEN config[k] ELSE DEFAULT_CONFIG[k]]

\* The HTTP statuses the upstream answers with in the model
Statuses == {200, 204, 304, 400, 401, 403, 404, 429, 500, 503, 599}

\* The bodies of a 2xx response: JSON texts by what they parse to, or malformed
OkBodies == {"object", "emptyObject", "null", "false", "zero", "emptyString",
             "malformed"}

\* response.ok
ResponseOk(status) == status >= 200 /\ status <= 299

\* The responses fetch resolves with. The body of a non-2xx response only
\* feeds the opaque `details` field, so one body stands for all of them.
Responses ==
    { r \in [status : Statuses, body : OkBodies \cup {"errorText"}] :
        (r.body = "errorText") <=> ~ResponseOk(r.status) }

\* The errors fetch rejects with, other than the abort of the timeout guard.
\* `status` is 0 where the property is undefined. The last two are errors of
\* a substituted fetch implementation: one that is named TypeError without
\* being an instance of it, and one that carries the status of the response.
FetchFailures ==
    { [name |-> "TypeError", isTypeError |-> TRUE, message |-> "fetch failed",
       mentionsFetch |-> TRUE, status |-> 0],
      [name |-> "TypeError", isTypeError |-> TRUE, message |-> "Invalid URL",
       mentionsFetch |-> FALSE, status |-> 0],
      [name |-> "Error", isTypeError |-> FALSE, message |-> "socket hang up",
       mentionsFetch |-> FALSE, status |-> 0],
      [name |-> "Error", isTypeError |-> FALSE, message |-> "",
       mentionsFetch |-> FALSE, status |-> 0],
      [name |-> "TypeError", isTypeError |-> FALSE, message |-> "fetch failed",
       mentionsFetch |-> TRUE, status |-> 0],
      [name |-> "Error", isTypeError |-> FALSE, message |-> "Service Unavailable",
       mentionsFetch |-> FALSE, status |-> 503] }

\* The rejection of a fetch whose signal was aborted by controller.abort()
AbortError ==
    [name |-> "AbortError", isTypeError |-> FALSE,
     message |-> "This operation was aborted", mentionsFetch |-> FALSE,
     status |-> 0]

\* The object literal { status: response.status } handed to isRetryableError
StatusOnly(status) ==
    [name |-> "", isTypeError |-> FALSE, message |-> "",
     mentionsFetch |-> FALSE, status |-> status]

isRetryableErrorNo429(error) ==
    IF error.name = "TypeError" /\ error.mentionsFetch THEN TRUE
    ELSE IF error.name = "AbortError" THEN TRUE
    ELSE IF error.status >= 500 /\ error.status <= 599 THEN TRUE
    ELSE FALSE

isRetryableErrorNoAbort(error) ==
    IF error.name = "TypeError" /\ error.mentionsFetch THEN TRUE
    ELSE IF error.status >= 500 /\ error.status <= 599 THEN TRUE
    ELSE IF error.status = 429 THEN TRUE
    ELSE FALSE

isRetryableError(error) ==
    IF error.name = "TypeError" /\ error.mentionsFetch THEN TRUE
    ELSE IF error.name = "AbortError" THEN TRUE
    ELSE IF error.status >= 500 /\ error.status <= 599 THEN TRUE
    ELSE IF error.status = 429 THEN TRUE
    ELSE FALSE

BackoffDelayLinear(retryDelay, attempt) == retryDelay * (attempt + 1)

\* retryDelay * Math.pow(2, attempt)
BackoffDelay(retryDelay, attempt) == retryDelay * (2 ^ attempt)

\* The loop condition of `for (let attempt = 0; attempt <= maxRetries; attempt++)`
LoopCondition(attempt, maxRetries) == attempt <= maxRetries

NextAttemptStuck(attempt) == attempt

\* The loop increment attempt++
NextAttempt(attempt) == attempt + 1

\* The switch on response.status that sets httpError.message
HttpMessage(status, statusText) ==
    CASE status = 400 -> "Bad Request: Invalid search query or parameters"
      [] status = 401 -> "Unauthorized: Invalid or missing API key"
      [] status = 403 -> "Forbidden: API key may be invalid or quota exceeded"
      [] status = 404 -> "Not Found: No results found for the specified query"
      [] status = 429 -> "Rate Limited: Too many requests. Retrying..."
      [] status = 500 -> "Server Error: OpenFDA service is experiencing issues"
      [] OTHER -> "HTTP Error " \o ToString(status) \o ": " \o statusText

HttpError(status) ==
    [type |-> "http", message |-> HttpMessage(status, ""), status |-> status]

HttpDecisionRetryAll(status, attempt, maxRetries) ==
    IF attempt < maxRetries THEN "retry" ELSE "break"

\* What the loop does after recording an http error: the two status checks
HttpDecision(status, attempt, maxRetries) ==
    IF status >= 400 /\ status < 500 /\ status # 429 THEN "break"
    ELSE IF attempt < maxRetries /\ isRetryableError(StatusOnly(status))
         THEN "retry"
         ELSE "break"

\* The classification of a caught error in the catch block
ClassifyThrown(error, timeout) ==
    IF error.name = "AbortError"
    THEN [type |-> "timeout",
          message |-> "Request timeout after " \o ToString(timeout) \o "ms"]
    ELSE IF error.isTypeError /\ error.mentionsFetch
    THEN [type |-> "network",
          message |-> "Network error: Unable to connect to OpenFDA API"]
    ELSE [type |-> "unknown",
          message |-> "Unexpected error: " \o
              (IF error.message = "" THEN "Unknown error occurred"
               ELSE error.message)]

ThrownDecisionRetryAll(error, attempt, maxRetries) ==
    IF attempt < maxRetries THEN "retry" ELSE "break"

\* What the catch block does after recording the error
ThrownDecision(error, attempt, maxRetries) ==
    IF attempt < maxRetries /\ isRetryableError(error) THEN "retry" ELSE "break"

\* response.json(): the parsed value of a body (Null is JSON null)
JsonParse(body) ==
    CASE body = "object" -> [json |-> "object"]
      [] body = "emptyObject" -> [json |-> "emptyObject"]
      [] body = "null" -> Null
      [] body = "false" -> [json |-> "false"]
      [] body = "zero" -> [json |-> "zero"]
      [] body = "emptyString" -> [json |-> "emptyString"]

\* Whether response.json() rejects
JsonFails(body) == body = "malformed"

\* JavaScript truthiness of a parsed JSON value
Truthy(v) ==
    v \notin {Null, [json |-> "false"], [json |-> "zero"],
              [json |-> "emptyString"]}

Calls == {1, 2}

NoOutcome == [kind |-> "none"]
Pending == [pending |-> TRUE]

\* Integer clock, in milliseconds since the call was entered: the times a
\* fetch takes to settle when it settles before the guard fires
Latencies == {0, 10}

GuardDeadlineTwice(armedAt, timeout) == armedAt + 2 * timeout

\* setTimeout(() => controller.abort(), timeout): when the guard fires
GuardDeadline(armedAt, timeout) == armedAt + timeout

\* The frame of a call that has not been made
IdleFrame ==
    [pc |-> "idle", maxRetries |-> 0, retryDelay |-> 0, timeout |-> 0,
     attempt |-> 0, lastError |-> Null, guard |-> "none", ret |-> Pending,
     fetches |-> 0, sleeps |-> <<>>, lastOutcome |-> NoOutcome, seen |-> {},
     now |-> 0, armedAt |-> 0]

\* `return r`
Return(f, r) == [f EXCEPT !.pc = "done", !.ret = r]

\* `break`, then the statement after the loop: return { data: null, error: lastError }
Break(f) == Return(f, [data |-> Null, error |-> f.lastError])

\* `await sleep(delay)` with the exponential delay, then `continue`
Backoff(f) ==
    [f EXCEPT !.pc = "sleep",
              !.sleeps = Append(@, BackoffDelay(f.retryDelay, f.attempt))]

\* The head of one loop iteration: test the loop condition, arm the timeout
\* guard and issue the fetch; or leave the loop
BeginAttempt(f) ==
    IF LoopCondition(f.attempt, f.maxRetries)
    THEN [f EXCEPT !.pc = "fetch", !.guard = "armed", !.armedAt = f.now,
                   !.fetches = @ + 1]
    ELSE Break(f)

\* The non-ok branch
OnHttpError(f, status) ==
    LET g == [f EXCEPT !.lastError = HttpError(status)] IN
    IF HttpDecision(status, g.attempt, g.maxRetries) = "retry"
    THEN Backoff(g) ELSE Break(g)

OnParseFailureRetried(f) ==
    LET g == [f EXCEPT !.lastError =
                 [type |-> "parsing",
                  message |-> "Failed to parse JSON response: Unexpected token"]]
    IN IF g.attempt < g.maxRetries THEN Backoff(g) ELSE Break(g)

\* The catch of response.json()
OnParseFailure(f) ==
    Break([f EXCEPT !.lastError =
              [type |-> "parsing",
               message |-> "Failed to parse JSON response: Unexpected token"]])

RecordEmptyResponseForgotten(f) == f

\* lastError = emptyError
RecordEmptyResponse(f) ==
    [f EXCEPT !.lastError =
        [type |-> "empty_response",
         message |-> "Received empty response from OpenFDA API"]]

SuccessResultKeepsError(f, parsedData) ==
    [data |-> parsedData, error |-> f.lastError]

\* { data: parsedData, error: null }
SuccessResult(f, parsedData) == [data |-> parsedData, error |-> Null]

\* The ok branch: parse, check for an empty payload, return the data
OnOk(f, body) ==
    IF JsonFails(body) THEN OnParseFailure(f)
    ELSE IF ~Truthy(JsonParse(body)) THEN Break(RecordEmptyResponse(f))
    ELSE Return(f, SuccessResult(f, JsonParse(body)))

\* fetch resolved: clearTimeout, then the rest of the try block
OnResponse(f, resp) ==
    LET o == [kind |-> "response", status |-> resp.status, body |-> resp.body]
        g == [f EXCEPT !.guard = "cleared", !.lastOutcome = o,
                       !.seen = @ \cup {o}]
    IN IF ~ResponseOk(resp.status) THEN OnHttpError(g, resp.status)
       ELSE OnOk(g, resp.body)

OnThrowKeepsFirst(f, error) ==
    LET o == [kind |-> "throw", error |-> error]
        g == [f EXCEPT !.lastOutcome = o, !.seen = @ \cup {o},
                       !.lastError = IF @ = Null
                                     THEN ClassifyThrown(error, f.timeout)
                                     ELSE @]
    IN IF ThrownDecision(error, g.attempt, g.maxRetries) = "retry"
       THEN Backoff(g) ELSE Break(g)

\* fetch rejected: the catch block
OnThrow(f, error) ==
    LET o == [kind |-> "throw", error |-> error]
        g == [f EXCEPT !.lastOutcome = o, !.seen = @ \cup {o},
                       !.lastError = ClassifyThrown(error, f.timeout)]
    IN IF ThrownDecision(error, g.attempt, g.maxRetries) = "retry"
       THEN Backoff(g) ELSE Break(g)

\* makeOpenFDARequest(url, config) up to its first await
makeOpenFDARequest(c) ==
    \E config \in Configs :
        /\ calls[c].pc = "idle"
        /\ LET m == MergeConfig(config) IN
           calls' = [calls EXCEPT ![c] =
               BeginAttempt([IdleFrame EXCEPT !.maxRetries = m.maxRetries,
                                              !.retryDelay = m.retryDelay,
                                              !.timeout = m.timeout])]
        /\ UNCHANGED <<builderVars, ndcVars>>

\* `await fetch(...)` resolves with a response
FetchResponds(c) ==
    \E resp \in Responses, lat \in Latencies :
        /\ calls[c].pc = "fetch"
        /\ calls[c].now + lat < GuardDeadline(calls[c].armedAt, calls[c].timeout)
        /\ calls' = [calls EXCEPT ![c] =
               OnResponse([calls[c] EXCEPT !.now = @ + lat], resp)]
        /\ UNCHANGED <<builderVars, ndcVars>>

\* `await fetch(...)` rejects with a failure of the network layer or another error
FetchThrows(c) ==
    \E error \in FetchFailures, lat \in Latencies :
        /\ calls[c].pc = "fetch"
        /\ calls[c].now + lat < GuardDeadline(calls[c].armedAt, calls[c].timeout)
        /\ calls' = [calls EXCEPT ![c] =
               OnThrow([calls[c] EXCEPT !.now = @ + lat], error)]
        /\ UNCHANGED <<builderVars, ndcVars>>

TimeoutFiresShared(c) ==
    /\ calls[c].pc = "fetch"
    /\ calls[c].guard = "armed"
    /\ calls' = [d \in Calls |->
           IF calls[d].pc = "fetch"
           THEN OnThrow([calls[d] EXCEPT
                           !.guard = "fired",
                           !.now = GuardDeadline(calls[c].armedAt, calls[c].timeout)],
                        AbortError)
           ELSE calls[d]]
    /\ UNCHANGED <<builderVars, ndcVars>>

\* The timer of the guard fires: controller.abort() rejects the fetch
TimeoutFires(c) ==
    /\ calls[c].pc = "fetch"
    /\ calls[c].guard = "armed"
    /\ calls' = [calls EXCEPT ![c] =
           OnThrow([calls[c] EXCEPT
                       !.guard = "fired",
                       !.now = GuardDeadline(calls[c].armedAt, calls[c].timeout)],
                   AbortError)]
    /\ UNCHANGED <<builderVars, ndcVars>>

\* `await sleep(delay)` resolves: continue with the next iteration
SleepResolves(c) ==
    /\ calls[c].pc = "sleep"
    /\ calls' = [calls EXCEPT ![c] =
           BeginAttempt([calls[c] EXCEPT
                            !.attempt = NextAttempt(@),
                            !.now = @ + calls[c].sleeps[Len(calls[c].sleeps)]])]
    /\ UNCHANGED <<builderVars, ndcVars>>

(***************************************************************************)
(* Concurrent calls: the event loop runs one call up to its next await,    *)
(* then any call whose awaited promise has settled.                        *)
(***************************************************************************)
\* Largest maxRetries of a call that runs beside another
MaxConcurrentRetries == 2

\* The upstream outcomes drawn for calls that run beside each other
ConcurrentOutcomes ==
    { [kind |-> "response", status |-> 200, body |-> "object"],
      [kind |-> "response", status |-> 404, body |-> "errorText"],
      [kind |-> "response", status |-> 503, body |-> "errorText"],
      [kind |-> "throw",
       error |-> [name |-> "TypeError", isTypeError |-> TRUE,
                  message |-> "fetch failed", mentionsFetch |-> TRUE,
                  status |-> 0]],
      [kind |-> "throw",
       error |-> [name |-> "Error", isTypeError |-> FALSE,
                  message |-> "socket hang up", mentionsFetch |-> FALSE,
                  status |-> 0]],
      [kind |-> "throw", error |-> AbortError] }

\* The event of a fetch of call c settling in this step: its outcome and the
\* time on the call's clock
Settled(c) ==
    /\ calls'[c].lastOutcome \in ConcurrentOutcomes
    /\ traces' = [traces EXCEPT ![c] =
           Append(@, [kind |-> "settle", outcome |-> calls'[c].lastOutcome,
                      at |-> calls'[c].now])]

\* Call c is entered while other calls may be in flight
ConcurrentCall(c) ==
    /\ makeOpenFDARequest(c)
    /\ calls'[c].maxRetries <= MaxConcurrentRetries
    /\ calls'[c].retryDelay = DEFAULT_CONFIG.retryDelay
    /\ calls'[c].timeout = DEFAULT_CONFIG.timeout
    /\ traces' = [traces EXCEPT ![c] = <<>>]
    /\ UNCHANGED tool

ConcurrentResponse(c) ==
    /\ FetchResponds(c)
    /\ calls'[c].now = calls[c].now
    /\ Settled(c)
    /\ UNCHANGED tool

ConcurrentFailure(c) ==
    /\ FetchThrows(c)
    /\ calls'[c].now = calls[c].now
    /\ Settled(c)
    /\ UNCHANGED tool

ConcurrentTimeout(c) ==
    /\ TimeoutFires(c)
    /\ Settled(c)
    /\ UNCHANGED tool

ConcurrentWake(c) ==
    /\ SleepResolves(c)
    /\ traces' = [traces EXCEPT ![c] = Append(@, [kind |-> "wake"])]
    /\ UNCHANGED tool

(***************************************************************************)
(* OpenFDABuilder                                                          *)
(***************************************************************************)
\* ContextType
Contexts == {"ndc", "label", "event"}

\* The query expressions the tool handlers pass to search(): a prefix naming
\* the field followed by the user's text, so never the empty string
Searches == {"openfda.brand_name:Advil", "openfda.generic_name:x&limit=5"}

\* Largest number passed to limit() in the model
MaxLimitArg == 3

\* The argument lists of limit(): no argument, or one number (the handlers
\* pass a literal or the tool's `limit: z.number()` argument, which may be 0)
LimitArgs == {<<>>} \cup { <<n>> : n \in 0..MaxLimitArg }

\* The values of process.env.OPENFDA_API_KEY: unset, or a key
ApiKeys == {<<>>, <<"key1">>, <<"key2">>}

\* `private url = "https://api.fda.gov/drug/"`
BaseUrl == "https://api.fda.gov/drug/"

\* new Map()
EmptyMap == <<>>

MapSetKeepsFirst(m, k, v) ==
    [x \in DOMAIN m \cup {k} |-> IF x \in DOMAIN m THEN m[x] ELSE v]

\* Map.prototype.set
MapSet(m, k, v) ==
    [x \in DOMAIN m \cup {k} |-> IF x = k THEN v ELSE m[x]]

\* Map.prototype.has
MapHas(m, k) == k \in DOMAIN m

\* `!this.params.get(k)` for a string-valued key: undefined or ""
FalsyString(m, k) == ~MapHas(m, k) \/ m[k] = ""

\* `!this.params.get(k)` for a number-valued key: undefined or 0
FalsyNumber(m, k) == ~MapHas(m, k) \/ m[k] = 0

LimitParamDefaultTen(args) == IF args = <<>> THEN 10 ELSE args[1]

\* The parameter of limit(max = 1): the default applies when no argument is given
LimitParam(args) == IF args = <<>> THEN 1 ELSE args[1]

\* `${apiKey}` in the template literal: an unset variable reads "undefined"
ApiKeyText(key) == IF key = <<>> THEN "undefined" ELSE key[1]

\* The template literal of build(), as the sequence of its pieces; the URL is
\* their concatenation
UrlPieces(m, key) ==
    <<BaseUrl, m["context"], ".json?api_key=", ApiKeyText(key), "&search=",
      m["search"], "&limit=", ToString(m["limit"])>>

\* The URL string: the pieces joined
UrlString(pieces) ==
    pieces[1] \o pieces[2] \o pieces[3] \o pieces[4] \o pieces[5] \o pieces[6]
        \o pieces[7] \o pieces[8]

NotBuilt == [kind |-> "none"]
NoLimitCall == [invoked |-> FALSE]
NoSetterArgs == [context |-> <<>>, search |-> <<>>]

\* The guard of build(): `!context || !search || !limit`
BuildThrows(m) ==
    FalsyString(m, "context") \/ FalsyString(m, "search") \/ FalsyNumber(m, "limit")

BuildResultRequiresKey(m, key) ==
    IF BuildThrows(m) \/ key = <<>>
    THEN [kind |-> "throw",
          message |-> "Missing required parameters: context, search, or limit"]
    ELSE [kind |-> "return", url |-> UrlPieces(m, key)]

\* build(): throw, or return the URL
BuildResult(m, key) ==
    IF BuildThrows(m)
    THEN [kind |-> "throw",
          message |-> "Missing required parameters: context, search, or limit"]
    ELSE [kind |-> "return", url |-> UrlPieces(m, key)]

\* new OpenFDABuilder()
New ==
    /\ params' = EmptyMap
    /\ limitCall' = NoLimitCall
    /\ setterArgs' = NoSetterArgs
    /\ built' = NotBuilt
    /\ prevBuilt' = NotBuilt
    /\ untouched' = FALSE
    /\ lastOp' = "new"
    /\ UNCHANGED <<apiKey, clientVars, ndcVars>>

\* context(context)
context ==
    \E v \in Contexts :
        /\ params' = MapSet(params, "context", v)
        /\ setterArgs' = [setterArgs EXCEPT !.context = <<v>>]
        /\ untouched' = FALSE
        /\ lastOp' = "context"
        /\ UNCHANGED <<apiKey, limitCall, built, prevBuilt, clientVars, ndcVars>>

\* search(query)
search ==
    \E q \in Searches :
        /\ params' = MapSet(params, "search", q)
        /\ setterArgs' = [setterArgs EXCEPT !.search = <<q>>]
        /\ untouched' = FALSE
        /\ lastOp' = "search"
        /\ UNCHANGED <<apiKey, limitCall, built, prevBuilt, clientVars, ndcVars>>

\* limit(max = 1)
limit ==
    \E args \in LimitArgs :
        /\ params' = MapSet(params, "limit", LimitParam(args))
        /\ limitCall' = [invoked |-> TRUE, args |-> args]
        /\ untouched' = FALSE
        /\ lastOp' = "limit"
        /\ UNCHANGED <<apiKey, built, setterArgs, prevBuilt, clientVars, ndcVars>>

\* build()
build ==
    /\ built' = BuildResult(params, apiKey)
    /\ prevBuilt' = IF untouched THEN built ELSE NotBuilt
    /\ untouched' = TRUE
    /\ lastOp' = "build"
    /\ UNCHANGED <<params, apiKey, limitCall, setterArgs, clientVars, ndcVars>>

\* The environment variable is set or changed (dotenv.config(), the host)
SetApiKey ==
    \E key \in ApiKeys :
        /\ key # apiKey
        /\ apiKey' = key
        /\ lastOp' = "setenv"
        /\ UNCHANGED <<params, limitCall, built, setterArgs, untouched,
                       prevBuilt, clientVars, ndcVars>>

(***************************************************************************)
(* normalizeNDC                                                            *)
(* A string is a sequence of one-character strings.                        *)
(***************************************************************************)
DigitChars == {"0", "1", "2", "3", "4", "5", "6", "7", "8", "9"}

WhiteSpace == {" "}

LowerLetters ==
    <<"a", "b", "c", "d", "e", "f", "g", "h", "i", "j", "k", "l", "m",
      "n", "o", "p", "q", "r", "s", "t", "u", "v", "w", "x", "y", "z">>

UpperLetters ==
    <<"A", "B", "C", "D", "E", "F", "G", "H", "I", "J", "K", "L", "M",
      "N", "O", "P", "Q", "R", "S", "T", "U", "V", "W", "X", "Y", "Z">>

\* The upper-case form of one character
UpperChar(ch) ==
    IF \E i \in 1..Len(LowerLetters) : LowerLetters[i] = ch
    THEN UpperLetters[CHOOSE i \in 1..Len(LowerLetters) : LowerLetters[i] = ch]
    ELSE ch

\* String.prototype.toUpperCase
ToUpperCase(s) == [i \in 1..Len(s) |-> UpperChar(s[i])]

RECURSIVE TrimStart(_)
TrimStart(s) ==
    IF s # <<>> /\ Head(s) \in WhiteSpace THEN TrimStart(Tail(s)) ELSE s

RECURSIVE TrimEnd(_)
TrimEnd(s) ==
    IF s # <<>> /\ s[Len(s)] \in WhiteSpace
    THEN TrimEnd(SubSeq(s, 1, Len(s) - 1)) ELSE s

\* String.prototype.trim
Trim(s) == TrimEnd(TrimStart(s))

\* cleanNDC.includes('-')
IncludesDash(s) == \E i \in 1..Len(s) : s[i] = "-"

\* cleanNDC.split('-')
RECURSIVE SplitDash(_)
SplitDash(s) ==
    IF ~IncludesDash(s) THEN <<s>>
    ELSE LET i == CHOOSE k \in 1..Len(s) :
                      s[k] = "-" /\ \A j \in 1..(k - 1) : s[j] # "-"
         IN <<SubSeq(s, 1, i - 1)>> \o SplitDash(SubSeq(s, i + 1, Len(s)))

\* String.prototype.substring(start, end), 0-based, end exclusive and clamped
Substring(s, start, end) ==
    SubSeq(s, start + 1, IF end > Len(s) THEN Len(s) ELSE end)

ProductPatternTestUnanchored(s) ==
    \E k \in 0..(Len(s) - 10) :
        /\ \A i \in 1..5 : s[k + i] \in DigitChars
        /\ s[k + 6] = "-"
        /\ \A i \in 7..10 : s[k + i] \in DigitChars

\* /^\d{5}-\d{4}$/.test(productNDC)
ProductPatternTest(s) ==
    /\ Len(s) = 10
    /\ \A i \in 1..5 : s[i] \in DigitChars
    /\ s[6] = "-"
    /\ \A i \in 7..10 : s[i] \in DigitChars

\* `return { productNDC: cleanNDC, packageNDC: null, isValid: false }`;
\* a null packageNDC is <<>>, a string one is <<string>>
InvalidResult(cleanNDC) ==
    [productNDC |-> cleanNDC, packageNDC |-> <<>>, isValid |-> FALSE]

IsProductLengthTen(cleanNDC) == Len(cleanNDC) = 10

\* cleanNDC.length === 9
IsProductLength(cleanNDC) == Len(cleanNDC) = 9

\* cleanNDC.length === 11
IsPackageLength(cleanNDC) == Len(cleanNDC) = 11

ProductFromDigitsOffByOne(cleanNDC) ==
    Substring(cleanNDC, 0, 5) \o <<"-">> \o Substring(cleanNDC, 5, 10)

\* `${cleanNDC.substring(0, 5)}-${cleanNDC.substring(5, 9)}`
ProductFromDigits(cleanNDC) ==
    Substring(cleanNDC, 0, 5) \o <<"-">> \o Substring(cleanNDC, 5, 9)

\* `${cleanNDC.substring(0, 5)}-${cleanNDC.substring(5, 9)}-${cleanNDC.substring(9, 11)}`
PackageFromDigits(cleanNDC) ==
    Substring(cleanNDC, 0, 5) \o <<"-">> \o Substring(cleanNDC, 5, 9)
        \o <<"-">> \o Substring(cleanNDC, 9, 11)

ProductOnlyAsPackage(cleanNDC) ==
    [early |-> FALSE, productNDC |-> cleanNDC, packageNDC |-> <<cleanNDC>>]

\* The two-segment branch: productNDC = cleanNDC; packageNDC = null
ProductOnly(cleanNDC) ==
    [early |-> FALSE, productNDC |-> cleanNDC, packageNDC |-> <<>>]

\* The if/else chain on the layout: an early return, or the derived
\* productNDC and packageNDC
DeriveNDC(cleanNDC) ==
    IF IncludesDash(cleanNDC)
    THEN LET parts == SplitDash(cleanNDC) IN
         IF Len(parts) = 2
         THEN ProductOnly(cleanNDC)
         ELSE IF Len(parts) = 3
         THEN [early |-> FALSE,
               productNDC |-> parts[1] \o <<"-">> \o parts[2],
               packageNDC |-> <<cleanNDC>>]
         ELSE [early |-> TRUE, result |-> InvalidResult(cleanNDC)]
    ELSE IF IsPackageLength(cleanNDC)
         THEN [early |-> FALSE, productNDC |-> ProductFromDigits(cleanNDC),
               packageNDC |-> <<PackageFromDigits(cleanNDC)>>]
         ELSE IF IsProductLength(cleanNDC)
         THEN [early |-> FALSE, productNDC |-> ProductFromDigits(cleanNDC),
               packageNDC |-> <<>>]
         ELSE [early |-> TRUE, result |-> InvalidResult(cleanNDC)]

normalizeNDC(ndc) ==
    LET cleanNDC == ToUpperCase(Trim(ndc))
        d == DeriveNDC(cleanNDC)
    IN IF d.early THEN d.result
       ELSE [productNDC |-> d.productNDC, packageNDC |-> d.packageNDC,
             isValid |-> ProductPatternTest(d.productNDC)]

\* The pieces the inputs of the model are made of
NDCPieces ==
    { <<>>, <<"1", "2", "3", "4", "5">>, <<"6", "7", "8", "9">>, <<"0", "1">>,
      <<"-">>, <<"a", "b">>, <<" ">> }

\* Largest number of pieces in an input
MaxPieces == 5

RECURSIVE Flatten(_)
Flatten(ss) == IF ss = <<>> THEN <<>> ELSE Head(ss) \o Flatten(Tail(ss))

\* The ndcCode arguments: every concatenation of up to MaxPieces pieces
NDCInputs == { Flatten(ss) : ss \in [1..MaxPieces -> NDCPieces] }

NoNDCResult == [pending |-> TRUE]

\* normalizeNDC(ndcCode)
Normalize ==
    /\ ndcResult = NoNDCResult
    /\ ndcResult' = normalizeNDC(ndcInput)
    /\ UNCHANGED <<ndcInput, ndcAgain, clientVars, builderVars>>

\* normalizeNDC(normalizeNDC(ndcCode).productNDC)
Renormalize ==
    /\ ndcResult # NoNDCResult
    /\ ndcAgain = NoNDCResult
    /\ ndcAgain' = normalizeNDC(ndcResult.productNDC)
    /\ UNCHANGED <<ndcInput, ndcResult, clientVars, builderVars>>

(***************************************************************************)
(* The get-drug-by-ndc tool handler                                        *)
(***************************************************************************)
\* The ndcCode arguments the tool is invoked with
ToolNDCCodes ==
    { <<"1", "2", "3", "4", "5", "-", "6", "7", "8", "9">>,
      <<"1", "2", "3", "4", "5", "-", "6", "7", "8", "9", "-", "0", "1">>,
      <<"1", "2", "3", "4", "5", "6", "7", "8", "9">>,
      <<" ", "1", "2", "3", "4", "5", "6", "7", "8", "9", "0", "1">>,
      <<"1", "2", "3", "4", "5">>,
      <<"1", "2", "3", "4", "5", "-", "0", "1">>,
      <<"a", "b", "-", "6", "7", "8", "9", "-", "0", "1">>,
      <<>> }

RECURSIVE Text(_)
\* The string of a sequence of characters
Text(chars) == IF chars = <<>> THEN "" ELSE Head(chars) \o Text(Tail(chars))

\* searchQuery: the product NDC, and the package NDC when one was requested
SearchQuery(productNDC, packageNDC) ==
    "openfda.product_ndc:\"" \o Text(productNDC) \o "\""
        \o (IF packageNDC = <<>> THEN ""
            ELSE "+OR+openfda.package_ndc:\"" \o Text(packageNDC[1]) \o "\"")

\* new OpenFDABuilder().context("label").search(searchQuery).limit(10)
ToolParams(searchQuery) ==
    MapSet(MapSet(MapSet(EmptyMap, "context", "label"), "search", searchQuery),
           "limit", LimitParam(<<10>>))

NoReply == [kind |-> "none"]

\* The handler before the tool is invoked
IdleTool ==
    [pc |-> "idle", ndcCode |-> <<>>, events |-> <<>>, url |-> <<>>,
     requests |-> 0, readData |-> FALSE, reply |-> NoReply]

RejectsNDCNever(normalized) == FALSE

\* if (!isValid)
RejectsNDC(normalized) == ~normalized.isValid

\* `!drugData || !drugData.results || drugData.results.length === 0`
NoResults(drugData) == ~Truthy(drugData) \/ drugData # [json |-> "object"]

\* The handler is invoked and runs up to `await makeOpenFDARequest(url)`, or
\* to its return for an invalid code
GetDrugByNdc ==
    \E ndcCode \in ToolNDCCodes :
        /\ tool.pc = "idle"
        /\ LET n == normalizeNDC(ndcCode)
               b == BuildResult(ToolParams(SearchQuery(n.productNDC, n.packageNDC)),
                                apiKey)
               t == [tool EXCEPT !.ndcCode = ndcCode,
                                 !.events = <<"normalizeNDC">>]
           IN IF RejectsNDC(n)
              THEN /\ tool' = [t EXCEPT !.pc = "done",
                                        !.reply = [kind |-> "invalid",
                                                   ndcCode |-> ndcCode]]
                   /\ UNCHANGED calls
              ELSE IF b.kind = "throw"
              THEN /\ tool' = [t EXCEPT !.pc = "done",
                                        !.events = Append(@, "build"),
                                        !.reply = [kind |-> "threw",
                                                   message |-> b.message]]
                   /\ UNCHANGED calls
              ELSE /\ tool' = [t EXCEPT
                                  !.pc = "awaiting",
                                  !.events = @ \o <<"build", "makeOpenFDARequest">>,
                                  !.url = <<UrlString(b.url)>>,
                                  !.requests = @ + 1]
                   /\ calls' = [calls EXCEPT ![1] =
                          BeginAttempt([IdleFrame EXCEPT
                              !.maxRetries = DEFAULT_CONFIG.maxRetries,
                              !.retryDelay = DEFAULT_CONFIG.retryDelay,
                              !.timeout = DEFAULT_CONFIG.timeout])]
        /\ UNCHANGED <<traces, builderVars, ndcVars>>

\* The awaited call has returned: the rest of the handler
ToolResumes ==
    /\ tool.pc = "awaiting"
    /\ calls[1].pc = "done"
    /\ LET error == calls[1].ret.error
           drugData == calls[1].ret.data
       IN IF error # Null
          THEN tool' = [tool EXCEPT !.pc = "done",
                                    !.reply = [kind |-> "failed",
                                               message |-> error.message]]
          ELSE IF NoResults(drugData)
          THEN tool' = [tool EXCEPT !.pc = "done", !.readData = TRUE,
                                    !.reply = [kind |-> "notFound"]]
          ELSE tool' = [tool EXCEPT !.pc = "done", !.readData = TRUE,
                                    !.events = Append(@, "format"),
                                    !.reply = [kind |-> "found"]]
    /\ UNCHANGED <<calls, traces, builderVars, ndcVars>>

(***************************************************************************)
(* Specifications                                                          *)
(***************************************************************************)
InitOthers ==
    /\ calls = [c \in Calls |-> IdleFrame]
    /\ traces = [c \in Calls |-> <<>>]
    /\ tool = IdleTool
    /\ params = EmptyMap
    /\ apiKey = <<>>
    /\ limitCall = NoLimitCall
    /\ lastOp = "new"
    /\ built = NotBuilt
    /\ setterArgs = NoSetterArgs
    /\ untouched = FALSE
    /\ prevBuilt = NotBuilt
    /\ ndcInput = <<>>
    /\ ndcResult = NoNDCResult
    /\ ndcAgain = NoNDCResult

InitClient == InitOthers

\* One call on its own
NextClient ==
    \/ makeOpenFDARequest(1) /\ UNCHANGED <<traces, tool>>
    \/ FetchResponds(1) /\ UNCHANGED <<traces, tool>>
    \/ FetchThrows(1) /\ UNCHANGED <<traces, tool>>
    \/ TimeoutFires(1) /\ UNCHANGED <<traces, tool>>
    \/ SleepResolves(1) /\ UNCHANGED <<traces, tool>>

SpecClient == InitClient /\ [][NextClient]_vars

InitConcurrent == InitOthers

\* Several calls in flight at once, interleaving at their awaits
NextConcurrent ==
    \/ \E c \in Calls : ConcurrentCall(c)
    \/ \E c \in Calls : ConcurrentResponse(c)
    \/ \E c \in Calls : ConcurrentFailure(c)
    \/ \E c \in Calls : ConcurrentTimeout(c)
    \/ \E c \in Calls : ConcurrentWake(c)

SpecConcurrent == InitConcurrent /\ [][NextConcurrent]_vars

InitTool == InitOthers

\* One invocation of the tool: the handler and the call it awaits
NextTool ==
    \/ GetDrugByNdc
    \/ FetchResponds(1) /\ tool.pc = "awaiting" /\ UNCHANGED <<traces, tool>>
    \/ FetchThrows(1) /\ tool.pc = "awaiting" /\ UNCHANGED <<traces, tool>>
    \/ TimeoutFires(1) /\ tool.pc = "awaiting" /\ UNCHANGED <<traces, tool>>
    \/ SleepResolves(1) /\ tool.pc = "awaiting" /\ UNCHANGED <<traces, tool>>
    \/ ToolResumes

SpecTool == InitTool /\ [][NextTool]_vars

InitBuilder == InitOthers

NextBuilder ==
    \/ New
    \/ context
    \/ search
    \/ limit
    \/ build
    \/ SetApiKey

SpecBuilder == InitBuilder /\ [][NextBuilder]_vars

InitNDC ==
    /\ calls = [c \in Calls |-> IdleFrame]
    /\ traces = [c \in Calls |-> <<>>]
    /\ tool = IdleTool
    /\ params = EmptyMap
    /\ apiKey = <<>>
    /\ limitCall = NoLimitCall
    /\ lastOp = "new"
    /\ built = NotBuilt
    /\ setterArgs = NoSetterArgs
    /\ untouched = FALSE
    /\ prevBuilt = NotBuilt
    /\ ndcInput \in NDCInputs
    /\ ndcResult = NoNDCResult
    /\ ndcAgain = NoNDCResult

NextNDC ==
    \/ Normalize
    \/ Renormalize

SpecNDC == InitNDC /\ [][NextNDC]_vars

(***************************************************************************)
(* Properties of makeOpenFDARequest                                        *)
(***************************************************************************)
\* A completed attempt whose response carried a retryable status (429, 5xx)
RetryableStatusOutcome(o) ==
    /\ o.kind = "response"
    /\ (o.status = 429 \/ (o.status >= 500 /\ o.status <= 599))

\* A completed attempt whose response carried a non-2xx status that is
\* neither 429 nor 5xx
TerminalStatusOutcome(o) ==
    /\ o.kind = "response"
    /\ ~(o.status >= 200 /\ o.status <= 299)
    /\ o.status # 429
    /\ ~(o.status >= 500 /\ o.status <= 599)

\* A completed attempt whose 2xx response had a body that is not JSON
ParseFailureOutcome(o) ==
    /\ o.kind = "response"
    /\ o.status >= 200 /\ o.status <= 299
    /\ o.body = "malformed"

\* A completed attempt whose 2xx response parsed to a JSON object
PayloadOutcome(o) ==
    /\ o.kind = "response"
    /\ o.status >= 200 /\ o.status <= 299
    /\ o.body \in {"object", "emptyObject"}

\* C1: one call issues at most maxRetries + 1 fetch attempts, whatever the
\* config and the upstream outcomes.
C1_AtMostMaxRetriesPlusOne ==
    \A c \in Calls : calls[c].fetches <= calls[c].maxRetries + 1

C1_Witness ==
    \E c \in Calls :
        /\ calls[c].pc = "done"
        /\ calls[c].maxRetries >= 2
        /\ calls[c].fetches = calls[c].maxRetries + 1

\* C2: once an attempt completes with a non-2xx status other than 429 and 5xx,
\* the call has returned: no later fetch, no sleep after that attempt, and the
\* result is an http error carrying that status.
C2_TerminalStatusStops ==
    \A c \in Calls :
        TerminalStatusOutcome(calls[c].lastOutcome) =>
            /\ calls[c].pc = "done"
            /\ calls[c].fetches = calls[c].attempt + 1
            /\ Len(calls[c].sleeps) = calls[c].fetches - 1
            /\ calls[c].ret.data = Null
            /\ calls[c].ret.error.type = "http"
            /\ calls[c].ret.error.status = calls[c].lastOutcome.status

C2_Witness ==
    \E c \in Calls :
        /\ calls[c].pc = "done"
        /\ calls[c].lastOutcome = [kind |-> "response", status |-> 404,
                                   body |-> "errorText"]
        /\ calls[c].fetches = 1
        /\ calls[c].maxRetries >= 1

\* C3: a returned value has exactly one of data and error non-null.
C3_ExactlyOneOfDataAndError ==
    \A c \in Calls :
        calls[c].pc = "done" =>
            (calls[c].ret.data = Null) # (calls[c].ret.error = Null)

C3_Witness ==
    \E c \in Calls :
        /\ calls[c].pc = "done"
        /\ calls[c].maxRetries = 2
        /\ calls[c].retryDelay = DEFAULT_CONFIG.retryDelay
        /\ calls[c].timeout = 50
        /\ calls[c].ret.data = Null
        /\ calls[c].ret.error # Null
        /\ calls[c].ret.error.type = "empty_response"

\* C4: when every attempt yields a retryable status, the call performs exactly
\* maxRetries + 1 attempts and returns an http error with the last status.
C4_RetryableStatusExhaustsRetries ==
    \A c \in Calls :
        ( /\ calls[c].pc = "done"
          /\ calls[c].seen # {}
          /\ \A o \in calls[c].seen : RetryableStatusOutcome(o) ) =>
            /\ calls[c].fetches = calls[c].maxRetries + 1
            /\ calls[c].ret.data = Null
            /\ calls[c].ret.error.type = "http"
            /\ calls[c].ret.error.status = calls[c].lastOutcome.status

C4_Witness ==
    \E c \in Calls :
        /\ calls[c].pc = "done"
        /\ calls[c].maxRetries = 2
        /\ calls[c].seen = {[kind |-> "response", status |-> 503,
                             body |-> "errorText"]}
        /\ calls[c].fetches = 3
        /\ calls[c].ret.error.status = 503

\* C5: a 2xx response whose body fails to parse ends the call at that attempt
\* with a parsing error, at any attempt index and for any maxRetries; no sleep
\* follows.
C5_ParseFailureIsTerminal ==
    \A c \in Calls :
        ParseFailureOutcome(calls[c].lastOutcome) =>
            /\ calls[c].pc = "done"
            /\ calls[c].fetches = calls[c].attempt + 1
            /\ Len(calls[c].sleeps) = calls[c].fetches - 1
            /\ calls[c].ret.data = Null
            /\ calls[c].ret.error.type = "parsing"

C5_Witness ==
    \E c \in Calls :
        /\ calls[c].pc = "done"
        /\ ParseFailureOutcome(calls[c].lastOutcome)
        /\ calls[c].attempt >= 1
        /\ calls[c].attempt < calls[c].maxRetries

Absent(k) == ~MapHas(params, k)

\* C7: build() fails with the missing-parameter error if any of context,
\* search or limit is absent and otherwise returns a URL; a returned URL
\* lacks none of the three.
C7_BuildFailsExactlyWhenAbsent ==
    lastOp = "build" =>
        /\ (Absent("context") \/ Absent("search") \/ Absent("limit")) =>
              built = [kind |-> "throw",
                       message |-> "Missing required parameters: context, search, or limit"]
        /\ ~(Absent("context") \/ Absent("search") \/ Absent("limit")) =>
              built.kind = "return"
        /\ built.kind = "return" =>
              /\ built.url[2] \in Contexts
              /\ built.url[6] \in Searches
              /\ built.url[8] # ""

Clean == ToUpperCase(Trim(ndcInput))

AllDigits(s) == \A i \in 1..Len(s) : s[i] \in DigitChars

DashCount(s) == Cardinality({i \in 1..Len(s) : s[i] = "-"})

\* AAAAA-BBBB: 5 digits, a dash, 4 digits
Layout2(s) ==
    /\ Len(s) = 10
    /\ AllDigits(SubSeq(s, 1, 5))
    /\ s[6] = "-"
    /\ AllDigits(SubSeq(s, 7, 10))

\* AAAAA-BBBB-CC: 5 digits, a dash, 4 digits, a dash, a third segment
Layout3(s) ==
    /\ Len(s) >= 11
    /\ Layout2(SubSeq(s, 1, 10))
    /\ s[11] = "-"
    /\ DashCount(s) = 2

\* 11 contiguous digits
Layout11(s) == Len(s) = 11 /\ AllDigits(s)

\* 9 contiguous digits
Layout9(s) == Len(s) = 9 /\ AllDigits(s)

Recognized(s) == Layout2(s) \/ Layout3(s) \/ Layout11(s) \/ Layout9(s)

\* C9: each recognized layout is mapped as the table states, with isValid true.
C9_RecognizedLayouts ==
    ndcResult # NoNDCResult =>
        /\ Layout2(Clean) =>
              ndcResult = [productNDC |-> Clean, packageNDC |-> <<>>,
                           isValid |-> TRUE]
        /\ Layout3(Clean) =>
              ndcResult = [productNDC |-> SubSeq(Clean, 1, 10),
                           packageNDC |-> <<Clean>>, isValid |-> TRUE]
        /\ Layout11(Clean) =>
              ndcResult =
                  [productNDC |-> SubSeq(Clean, 1, 5) \o <<"-">> \o SubSeq(Clean, 6, 9),
                   packageNDC |-> <<SubSeq(Clean, 1, 5) \o <<"-">> \o SubSeq(Clean, 6, 9)
                                     \o <<"-">> \o SubSeq(Clean, 10, 11)>>,
                   isValid |-> TRUE]
        /\ Layout9(Clean) =>
              ndcResult =
                  [productNDC |-> SubSeq(Clean, 1, 5) \o <<"-">> \o SubSeq(Clean, 6, 9),
                   packageNDC |-> <<>>, isValid |-> TRUE]

C9_Witness ==
    /\ ndcResult # NoNDCResult
    /\ Layout11(Clean)
    /\ Clean # ndcInput
    /\ ndcResult.isValid
    /\ ndcResult.packageNDC # <<>>

\* C10 as stated: every input outside the four layouts yields isValid = false,
\* productNDC = the cleaned input and packageNDC = null, and packageNDC is
\* non-null only for an 11-digit or 3-segment code.
C10_UnrecognizedReturnedAsIs ==
    ndcResult # NoNDCResult =>
        /\ ~Recognized(Clean) =>
              ndcResult = [productNDC |-> Clean, packageNDC |-> <<>>,
                           isValid |-> FALSE]
        /\ ndcResult.packageNDC # <<>> => (Layout11(Clean) \/ Layout3(Clean))

\* A cleaned input with the wrong number of segments or characters
WrongShape(s) ==
    \/ DashCount(s) >= 3
    \/ (DashCount(s) = 0 /\ Len(s) \notin {9, 11})

\* C10 amended: an input with more than three segments, or with no dash and a
\* length other than 9 and 11, yields isValid = false, productNDC = the
\* cleaned input and packageNDC = null; every other input outside the four
\* layouts is re-segmented like the layout of its shape and is valid only when
\* it has 11 characters without a dash of which the first 9 are digits;
\* packageNDC is non-null exactly for three segments or 11 dash-free characters.
C10_WrongShapeReturnedAsIs ==
    ndcResult # NoNDCResult =>
        /\ WrongShape(Clean) =>
              ndcResult = [productNDC |-> Clean, packageNDC |-> <<>>,
                           isValid |-> FALSE]
        /\ (~Recognized(Clean) /\ ~WrongShape(Clean)) =>
              (ndcResult.isValid <=>
                  (DashCount(Clean) = 0 /\ Len(Clean) = 11
                      /\ AllDigits(SubSeq(Clean, 1, 9))))
        /\ (ndcResult.packageNDC # <<>>) <=>
              (DashCount(Clean) = 2 \/ (DashCount(Clean) = 0 /\ Len(Clean) = 11))

C10_Witness ==
    /\ ndcResult # NoNDCResult
    /\ WrongShape(Clean)
    /\ Len(Clean) = 10
    /\ Clean # ndcInput
    /\ ndcResult.productNDC = Clean
    /\ ~ndcResult.isValid

\* The characters of s after its second dash (the third segment)
AfterSecondDash(s) ==
    LET d == {i \in 1..Len(s) : s[i] = "-"}
        second == CHOOSE i \in d : Cardinality({j \in d : j < i}) = 1
    IN SubSeq(s, second + 1, Len(s))

\* The characters of s before its second dash (the first two segments)
BeforeSecondDash(s) ==
    LET d == {i \in 1..Len(s) : s[i] = "-"}
        second == CHOOSE i \in d : Cardinality({j \in d : j < i}) = 1
    IN SubSeq(s, 1, second - 1)

\* C11: isValid is true exactly when the returned productNDC is 5 digits, a
\* dash and 4 digits; the third segment, or the last two of 11 characters,
\* has no influence on it.
C11_ValidIffProductPattern ==
    ndcResult # NoNDCResult =>
        /\ ndcResult.isValid <=> Layout2(ndcResult.productNDC)
        /\ DashCount(Clean) = 2 =>
              (ndcResult.isValid <=> Layout2(BeforeSecondDash(Clean)))
        /\ (DashCount(Clean) = 0 /\ Len(Clean) = 11) =>
              (ndcResult.isValid <=> AllDigits(SubSeq(Clean, 1, 9)))

C11_Witness ==
    /\ ndcResult # NoNDCResult
    /\ DashCount(Clean) = 2
    /\ AfterSecondDash(Clean) # <<>>
    /\ ~AllDigits(AfterSecondDash(Clean))
    /\ ndcResult.isValid
    /\ ndcResult.packageNDC = <<Clean>>

\* C12: for a valid input of two or three dash-separated segments,
\* normalizing the returned productNDC again gives the same productNDC, is
\* valid, and has packageNDC = null.
C12_ProductIdempotent ==
    ( /\ ndcAgain # NoNDCResult
      /\ ndcResult.isValid
      /\ DashCount(Clean) \in {1, 2} ) =>
        /\ ndcAgain.productNDC = ndcResult.productNDC
        /\ ndcAgain.isValid
        /\ ndcAgain.packageNDC = <<>>

C12_Witness ==
    /\ ndcAgain # NoNDCResult
    /\ ndcResult.isValid
    /\ DashCount(Clean) = 2
    /\ ndcResult.packageNDC = <<Clean>>
    /\ ndcAgain.productNDC = ndcResult.productNDC
    /\ ndcAgain.packageNDC = <<>>

\* C13: a successful build() returns exactly base + context + ".json?api_key="
\* + credential + "&search=" + search + "&limit=" + limit, with the search
\* string last passed to search() verbatim and the context and limit last
\* passed to their setters.
C13_UrlIsExactTemplate ==
    (lastOp = "build" /\ built.kind = "return") =>
        /\ setterArgs.context # <<>> /\ setterArgs.search # <<>>
        /\ limitCall.invoked
        /\ built.url =
              <<"https://api.fda.gov/drug/", setterArgs.context[1],
                ".json?api_key=",
                IF apiKey = <<>> THEN "undefined" ELSE apiKey[1],
                "&search=", setterArgs.search[1], "&limit=",
                ToString(IF limitCall.args = <<>> THEN 1 ELSE limitCall.args[1])>>
        /\ UrlString(built.url) =
              "https://api.fda.gov/drug/" \o setterArgs.context[1]
                  \o ".json?api_key="
                  \o (IF apiKey = <<>> THEN "undefined" ELSE apiKey[1])
                  \o "&search=" \o setterArgs.search[1] \o "&limit="
                  \o ToString(IF limitCall.args = <<>> THEN 1 ELSE limitCall.args[1])

C13_Witness ==
    /\ lastOp = "build"
    /\ built.kind = "return"
    /\ setterArgs.search = <<"openfda.generic_name:x&limit=5">>
    /\ UrlString(built.url) =
          "https://api.fda.gov/drug/event.json?api_key=key1&search=openfda.generic_name:x&limit=5&limit=2"

\* C14: the credential in the URL is the value of the environment at the
\* moment build() is called: two build() calls on the same builder with no
\* setter call between them give URLs that differ at most in api_key, each
\* carrying the credential of its moment; an absent credential does not make
\* build() fail.
C14_CredentialReadAtBuildTime ==
    lastOp = "build" =>
        /\ built.kind = "return" =>
              built.url[4] = (IF apiKey = <<>> THEN "undefined" ELSE apiKey[1])
        /\ built.kind = "throw" =>
              (Absent("context") \/ Absent("search") \/ Absent("limit")
                  \/ params["limit"] = 0)
        /\ prevBuilt.kind = "return" =>
              /\ built.kind = "return"
              /\ \A i \in (1..8) \ {4} : built.url[i] = prevBuilt.url[i]

C14_Witness ==
    /\ lastOp = "build"
    /\ apiKey = <<>>
    /\ built.kind = "return"
    /\ prevBuilt.kind = "return"
    /\ prevBuilt.url[4] = "key2"
    /\ built.url[4] = "undefined"

\* C15: the sleep between attempt i and attempt i+1 lasts retryDelay * 2^i on
\* the status path and on the exception path alike, and a sleep happens only
\* when a further attempt follows: a call with k attempts sleeps k - 1 times.
C15_ExponentialBackoffBetweenAttempts ==
    \A c \in Calls :
        /\ \A i \in 1..Len(calls[c].sleeps) :
              calls[c].sleeps[i] = calls[c].retryDelay * (2 ^ (i - 1))
        /\ calls[c].pc \in {"fetch", "done"} =>
              Len(calls[c].sleeps) = calls[c].fetches - 1
        /\ calls[c].pc = "sleep" =>
              /\ Len(calls[c].sleeps) = calls[c].fetches
              /\ calls[c].fetches <= calls[c].maxRetries

C15_Witness ==
    \E c \in Calls :
        /\ calls[c].pc = "done"
        /\ calls[c].fetches = 4
        /\ calls[c].sleeps = <<1000, 2000, 4000>>
        /\ \E o \in calls[c].seen : o.kind = "throw"
        /\ \E o \in calls[c].seen : o.kind = "response" /\ o.status = 503

\* A completed attempt that threw something other than the abort of the
\* timeout guard and a failure of the network layer
UnknownOutcome(o) ==
    /\ o.kind = "throw"
    /\ o.error.name # "AbortError"
    /\ ~(o.error.isTypeError /\ o.error.mentionsFetch)

\* C16 as stated: such an error is classified "unknown" and retried, so the
\* call returns it only when no attempt remains.
C16_UnknownIsRetried ==
    \A c \in Calls :
        UnknownOutcome(calls[c].lastOutcome) =>
            /\ calls[c].lastError.type = "unknown"
            /\ calls[c].pc = "done" => calls[c].fetches = calls[c].maxRetries + 1

\* The thrown objects isRetryableError accepts by their own properties
AcceptedByProperties(e) ==
    \/ (e.name = "TypeError" /\ e.mentionsFetch)
    \/ (e.status >= 500 /\ e.status <= 599)
    \/ e.status = 429

\* C16 amended: such an error is classified "unknown" and ends the call at
\* that attempt without a sleep, whatever attempts remain; it is retried only
\* when the thrown object itself passes isRetryableError by its name and
\* message or by a status of 429 or 5xx.
C16_UnknownIsTerminal ==
    \A c \in Calls :
        UnknownOutcome(calls[c].lastOutcome) =>
            /\ calls[c].lastError.type = "unknown"
            /\ ~AcceptedByProperties(calls[c].lastOutcome.error) =>
                  /\ calls[c].pc = "done"
                  /\ calls[c].ret.data = Null
                  /\ calls[c].ret.error.type = "unknown"
                  /\ calls[c].fetches = calls[c].attempt + 1
                  /\ Len(calls[c].sleeps) = calls[c].fetches - 1
            /\ ( /\ AcceptedByProperties(calls[c].lastOutcome.error)
                 /\ calls[c].pc = "done" ) =>
                  calls[c].fetches = calls[c].maxRetries + 1

C16_Witness ==
    \E c \in Calls :
        /\ calls[c].pc = "done"
        /\ calls[c].lastOutcome.kind = "throw"
        /\ calls[c].lastOutcome.error.message = "socket hang up"
        /\ calls[c].ret.error.type = "unknown"
        /\ calls[c].fetches = 1
        /\ calls[c].maxRetries = 3

\* A completed attempt whose fetch was aborted by the timeout guard
TimeoutOutcome(o) == o.kind = "throw" /\ o.error.name = "AbortError"

\* A completed attempt whose fetch failed in the network layer
NetworkOutcome(o) ==
    /\ o.kind = "throw"
    /\ o.error.isTypeError
    /\ o.error.mentionsFetch

\* C17: an attempt ended by the timeout guard is recorded as "timeout" and one
\* ended by a network failure as "network"; with attempts remaining the call
\* sleeps and the step after the sleep is attempt i+1 under a guard armed at
\* that moment for the whole timeout; at attempt maxRetries the call returns
\* that error.
C17_TimeoutAndNetworkAreRetried ==
    [][\A c \in Calls :
        LET f == calls[c]
            g == calls'[c]
        IN /\ ( /\ f.pc = "fetch"
                /\ g # f
                /\ TimeoutOutcome(g.lastOutcome) \/ NetworkOutcome(g.lastOutcome) ) =>
                  /\ g.lastError.type =
                        IF TimeoutOutcome(g.lastOutcome) THEN "timeout" ELSE "network"
                  /\ TimeoutOutcome(g.lastOutcome) =>
                        /\ g.guard = "fired"
                        /\ g.now = f.armedAt + f.timeout
                  /\ g.attempt = f.attempt
                  /\ IF f.attempt < f.maxRetries
                     THEN g.pc = "sleep" /\ g.ret = Pending
                     ELSE /\ g.pc = "done"
                          /\ g.ret = [data |-> Null, error |-> g.lastError]
           /\ ( /\ f.pc = "sleep"
                /\ g # f
                /\ TimeoutOutcome(f.lastOutcome) \/ NetworkOutcome(f.lastOutcome) ) =>
                  /\ g.pc = "fetch"
                  /\ g.attempt = f.attempt + 1
                  /\ g.fetches = f.fetches + 1
                  /\ g.guard = "armed"
                  /\ g.armedAt = g.now
                  /\ g.timeout = f.timeout
    ]_vars

C17_Witness ==
    \E c \in Calls :
        /\ calls[c].pc = "done"
        /\ calls[c].maxRetries = 2
        /\ calls[c].fetches = 3
        /\ TimeoutOutcome(calls[c].lastOutcome)
        /\ calls[c].ret.error.type = "timeout"
        /\ \E o \in calls[c].seen : NetworkOutcome(o)

\* The error record the code builds for the outcome of one attempt
RecordOf(o, timeout) ==
    IF o.kind = "throw" THEN ClassifyThrown(o.error, timeout)
    ELSE IF ~ResponseOk(o.status) THEN HttpError(o.status)
    ELSE IF JsonFails(o.body)
    THEN [type |-> "parsing",
          message |-> "Failed to parse JSON response: Unexpected token"]
    ELSE [type |-> "empty_response",
          message |-> "Received empty response from OpenFDA API"]

\* C18: a returned error is the record of the last attempt performed: its type,
\* status and message are those of that attempt's outcome, whatever the earlier
\* attempts recorded.
C18_ReturnsErrorOfFinalAttempt ==
    \A c \in Calls :
        (calls[c].pc = "done" /\ calls[c].ret.error # Null) =>
            /\ calls[c].ret.data = Null
            /\ calls[c].ret.error =
                  RecordOf(calls[c].lastOutcome, calls[c].timeout)
            /\ calls[c].lastOutcome.kind = "response" =>
                  /\ ~ResponseOk(calls[c].lastOutcome.status) =>
                        /\ calls[c].ret.error.type = "http"
                        /\ calls[c].ret.error.status = calls[c].lastOutcome.status
                  /\ ResponseOk(calls[c].lastOutcome.status) =>
                        calls[c].ret.error.type \in {"parsing", "empty_response"}
            /\ calls[c].lastOutcome.kind = "throw" =>
                  calls[c].ret.error.type \in {"timeout", "network", "unknown"}

C18_Witness ==
    \E c \in Calls :
        /\ calls[c].pc = "done"
        /\ calls[c].fetches = 3
        /\ NetworkOutcome(calls[c].lastOutcome)
        /\ calls[c].ret.error.type = "network"
        /\ \E o \in calls[c].seen : o.kind = "response" /\ o.status = 503
        /\ \E o \in calls[c].seen : o.kind = "response" /\ o.status = 429

\* C19 as stated: after a 2xx response that parses, an absent or empty payload
\* (null, the empty string) ends the call with "empty_response" and no retry,
\* and a present payload (an object, false, 0) is returned as data.
C19_EmptyIsTerminalPresentIsData ==
    \A c \in Calls :
        LET o == calls[c].lastOutcome IN
        ( /\ o.kind = "response"
          /\ ResponseOk(o.status)
          /\ ~JsonFails(o.body) ) =>
            /\ o.body \in {"null", "emptyString"} =>
                  /\ calls[c].pc = "done"
                  /\ calls[c].ret.data = Null
                  /\ calls[c].ret.error.type = "empty_response"
                  /\ calls[c].fetches = calls[c].attempt + 1
                  /\ Len(calls[c].sleeps) = calls[c].attempt
            /\ o.body \in {"object", "false", "zero"} =>
                  /\ calls[c].pc = "done"
                  /\ calls[c].ret = [data |-> JsonParse(o.body), error |-> Null]

\* A call all of whose completed attempts were aborted by the timeout guard
AllTimedOut(f) ==
    /\ f.seen # {}
    /\ \A o \in f.seen : TimeoutOutcome(o)

\* C20 as stated: when every attempt times out, the call returns within
\* (maxRetries + 1) * timeout of its entry.
C20_AllTimeoutWithinAttemptsTimesTimeout ==
    \A c \in Calls :
        (calls[c].pc = "done" /\ AllTimedOut(calls[c])) =>
            calls[c].now <= (calls[c].maxRetries + 1) * calls[c].timeout

\* C20 amended: when every attempt times out, the call returns exactly
\* (maxRetries + 1) * timeout + retryDelay * (2^maxRetries - 1) after its
\* entry: the timeouts of all attempts plus the backoff sleeps between them.
C20_AllTimeoutIncludesBackoff ==
    \A c \in Calls :
        (calls[c].pc = "done" /\ AllTimedOut(calls[c])) =>
            /\ calls[c].fetches = calls[c].maxRetries + 1
            /\ calls[c].now =
                  (calls[c].maxRetries + 1) * calls[c].timeout
                  + calls[c].retryDelay * (2 ^ calls[c].maxRetries - 1)

C20_Witness ==
    \E c \in Calls :
        /\ calls[c].pc = "done"
        /\ AllTimedOut(calls[c])
        /\ calls[c].maxRetries = 3
        /\ calls[c].timeout = 30000
        /\ calls[c].retryDelay = 1000
        /\ calls[c].now = 127000

(***************************************************************************)
(* Properties of concurrent calls                                          *)
(***************************************************************************)
\* The frame a call entered with this config is in when it starts alone
EnteredAlone(f) ==
    BeginAttempt([IdleFrame EXCEPT !.maxRetries = f.maxRetries,
                                   !.retryDelay = f.retryDelay,
                                   !.timeout = f.timeout])

\* One event of a call that runs alone
AloneStep(f, e) ==
    IF e.kind = "wake"
    THEN BeginAttempt([f EXCEPT !.attempt = NextAttempt(@),
                                !.now = @ + f.sleeps[Len(f.sleeps)]])
    ELSE IF e.outcome.kind = "response"
    THEN OnResponse([f EXCEPT !.now = e.at],
                    [status |-> e.outcome.status, body |-> e.outcome.body])
    ELSE IF e.outcome.error.name = "AbortError"
    THEN OnThrow([f EXCEPT !.now = e.at, !.guard = "fired"], e.outcome.error)
    ELSE OnThrow([f EXCEPT !.now = e.at], e.outcome.error)

RECURSIVE RunAlone(_, _)
\* The frame of a call that runs alone through the events of a trace
RunAlone(f, trace) ==
    IF trace = <<>> THEN f
    ELSE RunAlone(AloneStep(f, Head(trace)), Tail(trace))

\* C21: whatever the interleaving, every call is where it would be had it run
\* alone through its own sequence of upstream outcomes: the same number of
\* attempts, attempt counter, last error, guard and result; so the outcome of
\* one call, a fired timeout included, never reaches another call.
C21_ConcurrentCallsAreIndependent ==
    \A c \in Calls :
        calls[c].pc # "idle" =>
            LET alone == RunAlone(EnteredAlone(calls[c]), traces[c]) IN
            /\ calls[c].fetches = alone.fetches
            /\ calls[c].attempt = alone.attempt
            /\ calls[c].lastError = alone.lastError
            /\ calls[c].guard = alone.guard
            /\ calls[c].pc = alone.pc
            /\ calls[c].ret = alone.ret
            /\ calls[c].sleeps = alone.sleeps

C21_Witness ==
    /\ calls[1].pc = "done"
    /\ calls[1].fetches = 3
    /\ calls[1].ret.error # Null
    /\ calls[1].ret.error.type = "timeout"
    /\ calls[2].pc = "fetch"
    /\ calls[2].guard = "armed"
    /\ calls[2].fetches = 2
    /\ calls[2].lastError # Null
    /\ calls[2].lastError.type = "http"

(***************************************************************************)
(* Properties of the get-drug-by-ndc tool handler                          *)
(***************************************************************************)
\* The events of one invocation, in the order the claim gives them
ToolOrder == <<"normalizeNDC", "build", "makeOpenFDARequest", "format">>

\* C22: the events of an invocation are a prefix of normalizeNDC, build,
\* makeOpenFDARequest, format; an invalid code is answered with the
\* invalid-format message with no URL built and no request issued; a valid one
\* issues exactly one makeOpenFDARequest call, and an error that call returns
\* becomes the failure message without the data being read.
C22_ToolOrderAndSingleRequest ==
    tool.pc # "idle" =>
        /\ Len(tool.events) <= Len(ToolOrder)
        /\ \A i \in 1..Len(tool.events) : tool.events[i] = ToolOrder[i]
        /\ calls[2] = IdleFrame
        /\ IF ~normalizeNDC(tool.ndcCode).isValid
           THEN /\ tool.pc = "done"
                /\ tool.reply = [kind |-> "invalid", ndcCode |-> tool.ndcCode]
                /\ tool.events = <<"normalizeNDC">>
                /\ tool.url = <<>>
                /\ tool.requests = 0
                /\ calls[1] = IdleFrame
           ELSE /\ tool.requests = 1
                /\ tool.url # <<>>
                /\ Len(tool.events) >= 3
                /\ calls[1].pc # "idle"
                /\ tool.pc = "awaiting" => tool.reply = NoReply
                /\ (tool.pc = "done" /\ calls[1].ret.error # Null) =>
                      /\ tool.reply = [kind |-> "failed",
                                       message |-> calls[1].ret.error.message]
                      /\ ~tool.readData
                      /\ Len(tool.events) = 3
                /\ (tool.pc = "done" /\ calls[1].ret.error = Null) =>
                      /\ tool.reply.kind \in {"notFound", "found"}
                      /\ tool.readData

C22_Witness ==
    /\ tool.pc = "done"
    /\ tool.ndcCode = <<" ", "1", "2", "3", "4", "5", "6", "7", "8", "9", "0", "1">>
    /\ tool.requests = 1
    /\ calls[1].fetches = 4
    /\ tool.reply.kind = "failed"
    /\ tool.reply.message = "Request timeout after 30000ms"

====
